---- MODULE Spec2Model ----
(***************************************************************************)
(* The Opus decoder worker of src/opus-decoder-worker.js as a state        *)
(* machine: the OpusDecoderWorker session object, the message handler      *)
(* self.onmessage, and the asynchronous activations of initialize().       *)
(*                                                                         *)
(* A message handler runs to its first await and then the worker's event   *)
(* loop is free to deliver the next message; the awaits of initialize()    *)
(* (lines 18 and 19) are therefore separate steps of the model.            *)
(* performance.now() values (timestamp, decodeTime) are left out: no       *)
(* decision of the program reads them.                                     *)
(***************************************************************************)
EXTENDS Integers, Sequences, FiniteSets, TLC

\* ------------------------------------------------------------- bounds
MaxCmds == 3            \* commands delivered to the worker in one run

\* ------------------------------------------------- program constants
maxFrameSize == 5760
sampleRate == 48000
InputCapacity == 4000
SilenceLen == 480
OPUS_SET_GAIN_REQUEST == 4034
GainScale == 256
ErrorPtrSize == 4

Null == 0               \* null / the NULL pointer: falsy in the guards

VARIABLES
  decoder,        \* this.decoder: Null or the id of a native decoder
  wasmModule,     \* this.wasmModule: Null or the id of a module instance
  inputBuffer,    \* this.inputBuffer: Null or the id of an input region
  outputBuffer,   \* this.outputBuffer: Null or the id of an output region
  acts,           \* the activations of initialize(), by id
  live,           \* native heap: the decoders and regions created, not released
  state,          \* lifecycle state of the session: Ready from a successful
                  \* initialization until the next reset or destroy
  cmds,           \* one record per command delivered: its kind, the types of
                  \* the events posted for it, whether it started an
                  \* initialize() and whether that one is still pending
  terminal,       \* a destroy was acknowledged and no init was received since
  step,           \* what the last step did
  prev            \* what the step before it did

fields == <<decoder, wasmModule, inputBuffer, outputBuffer>>
vars == <<decoder, wasmModule, inputBuffer, outputBuffer, acts, live, state,
          cmds, terminal, step, prev>>

\* ------------------------------------------------------- input spaces
\* e.data.data: absent, or a byte array of the given length.
Payloads ==
  {[present |-> FALSE, length |-> 0]} \cup
  {[present |-> TRUE, length |-> l] : l \in {0, 200, InputCapacity + 1}}

\* What _opus_decode_float can return: a negative error code or a count.
NativeRets == {-4, 0, 960, maxFrameSize}

\* e.data.config: gain absent, or gain = g512 / 512.
Configs ==
  {[hasGain |-> FALSE, g512 |-> 0]} \cup
  {[hasGain |-> TRUE, g512 |-> g] : g \in {512, 513}}

\* The error code _opus_decoder_create stores: 0, or OPUS_ALLOC_FAIL.
CreateCodes == {0, -7}

\* ------------------------------------------------------------ records
Snapshot ==
  [decoder |-> decoder, wasmModule |-> wasmModule, inputBuffer |-> inputBuffer,
   outputBuffer |-> outputBuffer, state |-> state, live |-> live]

\* A call into the module instance: the function, the instance, the pointers
\* passed, a length or value, what it returned, whether every pointer passed
\* was live, whether it threw, and the lifecycle state it was made in. req
\* is the request code of a control call, 0 for every other call.
NCall(fn, mod, dec, inp, outp, n, ret, ok) ==
  [fn |-> fn, mod |-> mod, dec |-> dec, inp |-> inp, outp |-> outp, n |-> n,
   req |-> 0, ret |-> ret, live |-> ok, threw |-> FALSE, st |-> state]

Request(call, req) == [call EXCEPT !.req = req]

Thrown(call) == [call EXCEPT !.threw = TRUE]

\* A posted message. has lists the optional fields the message carries; a
\* field it does not carry holds a filler. audioData is a Float32Array: its
\* length and where its samples come from.
NoAudio == [len |-> 0, src |-> "none"]

Event(type, has, error, audioData, samplesDecoded, isPacketLoss) ==
  [type |-> type, has |-> has, error |-> error, audioData |-> audioData,
   samplesDecoded |-> samplesDecoded, isPacketLoss |-> isPacketLoss]

DecoderReady == Event("decoder-ready", {}, "", NoAudio, 0, FALSE)
DecoderError(msg) == Event("decoder-error", {"error"}, msg, NoAudio, 0, FALSE)
DecodeError(msg) == Event("decode-error", {"error"}, msg, NoAudio, 0, FALSE)
Destroyed == Event("destroyed", {}, "", NoAudio, 0, FALSE)

\* Lines 153-159: samplesDecoded is decodedAudio.length.
DecodedAudio(audio) ==
  Event("decoded-audio", {"audioData", "timestamp", "decodeTime", "samplesDecoded"},
        "", audio, audio.len, FALSE)

\* Lines 168-174: new Float32Array(480) is 480 zeros.
Silence ==
  Event("decoded-audio", {"audioData", "timestamp", "isPacketLoss"},
        "", [len |-> SilenceLen, src |-> "zeros"], 0, TRUE)

NoData == [present |-> FALSE, length |-> 0]

NoConfig == [hasGain |-> FALSE, g512 |-> 0]

Step(op, data, emitted, ncalls) ==
  [op |-> op, data |-> data, config |-> NoConfig, pre |-> Snapshot,
   emitted |-> emitted, ncalls |-> ncalls]

\* ---------------------------------------------------------------- Init
Init ==
  /\ decoder = Null
  /\ wasmModule = Null
  /\ inputBuffer = Null
  /\ outputBuffer = Null
  /\ acts = <<>>
  /\ live = {}
  /\ state = "Uninitialized"
  /\ cmds = <<>>
  /\ terminal = FALSE
  /\ step = [op |-> "new", data |-> NoData, config |-> NoConfig,
             pre |-> [decoder |-> Null, wasmModule |-> Null, inputBuffer |-> Null,
                      outputBuffer |-> Null, state |-> "Uninitialized", live |-> {}],
             emitted |-> <<>>, ncalls |-> <<>>]
  /\ prev = step

\* ------------------------------------------------ native release calls
\* The three calls reset() and destroy() make, lines 116-118 and 127-129.
\* A call's live flag says whether its target was live when it was made.
release_calls ==
  << NCall("_opus_decoder_destroy", wasmModule, decoder, Null, Null, 0, 0,
           <<"dec", decoder>> \in live),
     NCall("_free", wasmModule, Null, inputBuffer, Null, 0, 0,
           inputBuffer = Null \/ <<"in", inputBuffer>> \in live),
     NCall("_free", wasmModule, Null, Null, outputBuffer, 0, 0,
           outputBuffer = Null \/ <<"out", outputBuffer>> \in live) >>

released == {<<"dec", decoder>>, <<"in", inputBuffer>>, <<"out", outputBuffer>>}

\* ------------------------------------------------- initialize(), 15-48
\* The call itself: the body runs to the await of line 18 and suspends.
initialize(origin) ==
  acts' = Append(acts, [origin |-> origin, cmd |-> Len(cmds) + 1, pc |-> "import"])

Types(evs) == [i \in DOMAIN evs |-> evs[i].type]

Cmd(kind, evs, started) ==
  [kind |-> kind, evs |-> Types(evs), started |-> started, open |-> started]

\* Command c (which started activation a) got its event; a is finished.
Finish(a, evs) ==
  /\ acts' = [acts EXCEPT ![a].pc = "done"]
  /\ cmds' = [cmds EXCEPT ![acts[a].cmd].evs = @ \o Types(evs),
                          ![acts[a].cmd].open = FALSE]

\* Variant of initialize_catch that logs the error and posts nothing.
initialize_catch_silent(a, op, msg) ==
  /\ Finish(a, <<>>)
  /\ state' = "Errored"
  /\ step' = Step(op, NoData, <<>>, <<>>)
  /\ prev' = step
  /\ UNCHANGED <<fields, live, terminal>>

\* The catch block, lines 42-47: one decoder-error, nothing else.
initialize_catch(a, op, msg) ==
  /\ Finish(a, <<DecoderError(msg)>>)
  /\ state' = "Errored"
  /\ step' = Step(op, NoData, <<DecoderError(msg)>>, <<>>)
  /\ prev' = step
  /\ UNCHANGED <<fields, live, terminal>>

\* Lines 19-40 once the module instance exists: every activation gets a
\* fresh instance (its id is the activation's), and the decoder and the
\* regions it creates live in that instance and carry the same id.
\* _opus_decoder_create returns NULL when it stores a non-zero error code.
create_calls(a, errorCode) ==
  << NCall("_malloc", a, Null, Null, Null, ErrorPtrSize, 0, TRUE),
     NCall("_opus_decoder_create", a, Null, Null, Null, sampleRate, errorCode, TRUE),
     NCall("getValue", a, Null, Null, Null, 0, errorCode, TRUE),
     NCall("_free", a, Null, Null, Null, 0, 0, TRUE) >>

alloc_calls(a) ==
  << NCall("_malloc", a, Null, a, Null, InputCapacity, 0, TRUE),
     NCall("_malloc", a, Null, Null, a, maxFrameSize * 4, 0, TRUE) >>

\* Variant of initialize_create without the test of lines 32-34.
initialize_create_unchecked(a, errorCode) ==
  /\ wasmModule' = a
  /\ decoder' = IF errorCode # 0 THEN Null ELSE a
  /\ inputBuffer' = a
  /\ outputBuffer' = a
  /\ live' = live \cup {<<"in", a>>, <<"out", a>>}
                  \cup (IF errorCode # 0 THEN {} ELSE {<<"dec", a>>})
  /\ Finish(a, <<DecoderReady>>)
  /\ state' = "Ready"
  /\ step' = Step("instantiate", NoData, <<DecoderReady>>,
                  create_calls(a, errorCode) \o alloc_calls(a))
  /\ UNCHANGED terminal
  /\ prev' = step

initialize_create(a, errorCode) ==
  /\ wasmModule' = a
  /\ IF errorCode # 0
     THEN /\ decoder' = Null
          /\ UNCHANGED <<inputBuffer, outputBuffer, live, terminal>>
          /\ Finish(a, <<DecoderError("Opus decoder creation failed")>>)
          /\ state' = "Errored"
          /\ step' = Step("instantiate", NoData,
                          <<DecoderError("Opus decoder creation failed")>>,
                          create_calls(a, errorCode))
     ELSE /\ decoder' = a
          /\ inputBuffer' = a
          /\ outputBuffer' = a
          /\ live' = live \cup {<<"dec", a>>, <<"in", a>>, <<"out", a>>}
          /\ Finish(a, <<DecoderReady>>)
          /\ state' = "Ready"
          /\ step' = Step("instantiate", NoData, <<DecoderReady>>,
                          create_calls(a, errorCode) \o alloc_calls(a))
          /\ UNCHANGED terminal
  /\ prev' = step

\* The await of line 18 settles: import('./libopus.js') resolved or rejected.
ImportSettled(a, ok) ==
  /\ acts[a].pc = "import"
  /\ IF ok
     THEN /\ acts' = [acts EXCEPT ![a].pc = "instantiate"]
          /\ step' = Step("import", NoData, <<>>, <<>>)
          /\ prev' = step
          /\ UNCHANGED <<fields, live, state, cmds, terminal>>
     ELSE initialize_catch(a, "import", "import failed")

\* The await of line 19 settles: LibOpusModule.default() resolved or rejected.
ModuleSettled(a, ok, errorCode) ==
  /\ acts[a].pc = "instantiate"
  /\ IF ok
     THEN initialize_create(a, errorCode)
     ELSE initialize_catch(a, "instantiate", "instantiate failed")

\* --------------------------------------------------- case 'init', 142-144
\* A session that is Ready stays Ready while a further init is pending: its
\* decoder and regions are untouched until that initialization settles.
OnInit ==
  /\ Len(cmds) < MaxCmds
  /\ initialize("init")
  /\ state' = IF state = "Ready" THEN "Ready" ELSE "Initializing"
  /\ cmds' = Append(cmds, Cmd("init", <<>>, TRUE))
  /\ terminal' = FALSE
  /\ step' = Step("init", NoData, <<>>, <<>>)
  /\ prev' = step
  /\ UNCHANGED <<fields, live>>

\* ------------------------------------------------------ decode(), 50-94
\* What one native decode call can do: return a code or a count, or throw.
DecodeOutcomes ==
  {[threw |-> FALSE, ret |-> r] : r \in NativeRets} \cup {[threw |-> TRUE, ret |-> 0]}

\* Variant of decode_calls that stages the packet in a region allocated for
\* the call and freed after it.
decode_calls_perCall(opusData, out) ==
  LET call == NCall("_opus_decode_float", wasmModule, decoder, inputBuffer,
                    outputBuffer, opusData.length, out.ret,
                    /\ <<"dec", decoder>> \in live
                    /\ <<"in", inputBuffer>> \in live
                    /\ <<"out", outputBuffer>> \in live)
  IN << NCall("_malloc", wasmModule, Null, Null, Null, opusData.length, 0, TRUE),
        NCall("HEAPU8.set", wasmModule, Null, inputBuffer, Null, opusData.length, 0,
              <<"in", inputBuffer>> \in live),
        IF out.threw THEN Thrown(call) ELSE call,
        NCall("_free", wasmModule, Null, Null, Null, 0, 0, TRUE) >>

decode_calls(opusData, out) ==
  LET call == NCall("_opus_decode_float", wasmModule, decoder, inputBuffer,
                    outputBuffer, opusData.length, out.ret,
                    /\ <<"dec", decoder>> \in live
                    /\ <<"in", inputBuffer>> \in live
                    /\ <<"out", outputBuffer>> \in live)
  IN << NCall("HEAPU8.set", wasmModule, Null, inputBuffer, Null, opusData.length, 0,
              <<"in", inputBuffer>> \in live),
        IF out.threw THEN Thrown(call) ELSE call >>

\* Variant of decode that copies the whole output region, not samplesDecoded.
decode_wholeRegion(opusData, out) ==
  IF decoder = Null \/ wasmModule = Null
  THEN [threw |-> TRUE, error |-> "Decoder not initialized", result |-> NoAudio,
        calls |-> <<>>]
  ELSE IF out.threw
  THEN [threw |-> TRUE, error |-> "RuntimeError", result |-> NoAudio,
        calls |-> decode_calls(opusData, out)]
  ELSE IF out.ret < 0
  THEN [threw |-> TRUE, error |-> "Opus decode failed", result |-> NoAudio,
        calls |-> decode_calls(opusData, out)]
  ELSE [threw |-> FALSE, error |-> "",
        result |-> [len |-> maxFrameSize, src |-> "outputBuffer"],
        calls |-> decode_calls(opusData, out)]

\* Variant of decode with the failure test written samplesDecoded <= 0.
decode_zeroFails(opusData, out) ==
  IF decoder = Null \/ wasmModule = Null
  THEN [threw |-> TRUE, error |-> "Decoder not initialized", result |-> NoAudio,
        calls |-> <<>>]
  ELSE IF out.threw
  THEN [threw |-> TRUE, error |-> "RuntimeError", result |-> NoAudio,
        calls |-> decode_calls(opusData, out)]
  ELSE IF out.ret <= 0
  THEN [threw |-> TRUE, error |-> "Opus decode failed", result |-> NoAudio,
        calls |-> decode_calls(opusData, out)]
  ELSE [threw |-> FALSE, error |-> "",
        result |-> [len |-> out.ret, src |-> "outputBuffer"],
        calls |-> decode_calls(opusData, out)]

\* The result of decode(opusData): it threw (with the message) or returned a
\* fresh Float32Array of samplesDecoded samples copied from the output region.
decode(opusData, out) ==
  IF decoder = Null \/ wasmModule = Null
  THEN [threw |-> TRUE, error |-> "Decoder not initialized", result |-> NoAudio,
        calls |-> <<>>]
  ELSE IF out.threw
  THEN [threw |-> TRUE, error |-> "RuntimeError", result |-> NoAudio,
        calls |-> decode_calls(opusData, out)]
  ELSE IF out.ret < 0
  THEN [threw |-> TRUE, error |-> "Opus decode failed", result |-> NoAudio,
        calls |-> decode_calls(opusData, out)]
  ELSE [threw |-> FALSE, error |-> "",
        result |-> [len |-> out.ret, src |-> "outputBuffer"],
        calls |-> decode_calls(opusData, out)]

\* ------------------------------------------------- case 'decode', 146-176
\* Variant of decode_case with the test of line 147 written if (data).
decode_case_anyArray(data, out) ==
  IF data.present
  THEN LET r == decode(data, out)
       IN [emitted |-> IF r.threw THEN <<DecodeError(r.error)>>
                       ELSE <<DecodedAudio(r.result)>>,
           ncalls |-> r.calls]
  ELSE [emitted |-> <<Silence>>, ncalls |-> <<>>]

decode_case(data, out) ==
  IF data.present /\ data.length > 0
  THEN LET r == decode(data, out)
       IN [emitted |-> IF r.threw THEN <<DecodeError(r.error)>>
                       ELSE <<DecodedAudio(r.result)>>,
           ncalls |-> r.calls]
  ELSE [emitted |-> <<Silence>>, ncalls |-> <<>>]

OnDecode(data, out) ==
  /\ Len(cmds) < MaxCmds
  /\ LET r == decode_case(data, out)
     IN /\ step' = Step("decode", data, r.emitted, r.ncalls)
        /\ cmds' = Append(cmds, Cmd("decode", r.emitted, FALSE))
  /\ prev' = step
  /\ UNCHANGED <<fields, acts, live, state, terminal>>

\* --------------------------------------------------- configure(), 96-112
\* Variant of gainValue with Math.floor in place of Math.round.
gainValue_floor(config) == (config.g512 * GainScale) \div (2 * GainScale)

\* Math.round(config.gain * 256) for gain = g512 / 512.
gainValue(config) == (config.g512 * GainScale + GainScale) \div (2 * GainScale)

configure(config, throws) ==
  IF decoder = Null \/ wasmModule = Null
  THEN <<>>
  ELSE IF config.hasGain
  THEN LET call == Request(NCall("_opus_decoder_ctl", wasmModule, decoder, Null,
                                 Null, gainValue(config), 0,
                                 <<"dec", decoder>> \in live),
                           OPUS_SET_GAIN_REQUEST)
       IN << IF throws THEN Thrown(call) ELSE call >>
  ELSE <<>>

\* ---------------------------------------------- case 'configure', 178-180
\* Variant of OnConfigure in which a failed control call is reported.
OnConfigure_reportsFailure(config, throws) ==
  /\ Len(cmds) < MaxCmds
  /\ LET calls == configure(config, throws)
         evs == IF \E i \in DOMAIN calls : calls[i].threw
                THEN <<DecoderError("Configuration error")>> ELSE <<>>
     IN /\ step' = [Step("configure", NoData, evs, calls) EXCEPT !.config = config]
        /\ cmds' = Append(cmds, Cmd("configure", evs, FALSE))
  /\ prev' = step
  /\ UNCHANGED <<fields, acts, live, state, terminal>>

OnConfigure(config, throws) ==
  /\ Len(cmds) < MaxCmds
  /\ step' = [Step("configure", NoData, <<>>, configure(config, throws))
                EXCEPT !.config = config]
  /\ cmds' = Append(cmds, Cmd("configure", <<>>, FALSE))
  /\ prev' = step
  /\ UNCHANGED <<fields, acts, live, state, terminal>>

\* ------------------------------------------------------ reset(), 114-123
reset ==
  IF decoder # Null /\ wasmModule # Null
  THEN /\ live' = live \ released
       /\ initialize("reset")
       /\ UNCHANGED fields
  ELSE UNCHANGED <<fields, live, acts>>

\* -------------------------------------------------- case 'reset', 182-184
OnReset ==
  /\ Len(cmds) < MaxCmds
  /\ reset
  /\ LET started == decoder # Null /\ wasmModule # Null
     IN /\ step' = Step("reset", NoData, <<>>,
                        IF started THEN release_calls ELSE <<>>)
        /\ cmds' = Append(cmds, Cmd("reset", <<>>, started))
        /\ state' = IF started THEN "Initializing" ELSE state
  /\ prev' = step
  /\ UNCHANGED terminal

\* ---------------------------------------------------- destroy(), 125-132
\* Variant of destroy without the assignment of line 130.
destroy_keepsHandle ==
  IF decoder # Null /\ wasmModule # Null
  THEN /\ live' = live \ released
       /\ UNCHANGED fields
  ELSE UNCHANGED <<fields, live>>

destroy ==
  IF decoder # Null /\ wasmModule # Null
  THEN /\ live' = live \ released
       /\ decoder' = Null
       /\ UNCHANGED <<wasmModule, inputBuffer, outputBuffer>>
  ELSE UNCHANGED <<fields, live>>

\* ------------------------------------------------ case 'destroy', 186-189
\* Variant of OnDestroy without the postMessage of line 188.
OnDestroy_noAck ==
  /\ Len(cmds) < MaxCmds
  /\ destroy
  /\ step' = Step("destroy", NoData, <<>>,
                  IF decoder # Null /\ wasmModule # Null THEN release_calls ELSE <<>>)
  /\ cmds' = Append(cmds, Cmd("destroy", <<>>, FALSE))
  /\ state' = "Destroyed"
  /\ terminal' = TRUE
  /\ prev' = step
  /\ UNCHANGED acts

OnDestroy ==
  /\ Len(cmds) < MaxCmds
  /\ destroy
  /\ step' = Step("destroy", NoData, <<Destroyed>>,
                  IF decoder # Null /\ wasmModule # Null THEN release_calls ELSE <<>>)
  /\ cmds' = Append(cmds, Cmd("destroy", <<Destroyed>>, FALSE))
  /\ state' = "Destroyed"
  /\ terminal' = TRUE
  /\ prev' = step
  /\ UNCHANGED acts

\* ------------------------------------------------------- specification
Next ==
  \/ OnInit
  \/ \E data \in Payloads, out \in DecodeOutcomes : OnDecode(data, out)
  \/ \E config \in Configs, throws \in BOOLEAN : OnConfigure(config, throws)
  \/ OnReset
  \/ OnDestroy
  \/ \E a \in DOMAIN acts, ok \in BOOLEAN : ImportSettled(a, ok)
  \/ \E a \in DOMAIN acts, ok \in BOOLEAN, errorCode \in CreateCodes :
       ModuleSettled(a, ok, errorCode)

Spec == Init /\ [][Next]_vars

\* Every pending await of initialize() eventually settles.
Settles(a) ==
  /\ a \in DOMAIN acts
  /\ \/ \E ok \in BOOLEAN : ImportSettled(a, ok)
     \/ \E ok \in BOOLEAN, errorCode \in CreateCodes : ModuleSettled(a, ok, errorCode)

FairSpec == Spec /\ \A a \in 1..MaxCmds : WF_vars(Settles(a))

\* ============================================================== claims
CommandOps == {"init", "decode", "configure", "reset", "destroy"}

NonEmpty(data) == data.present /\ data.length > 0

Calls(st, fn) == {i \in DOMAIN st.ncalls : st.ncalls[i].fn = fn}

FieldsAsBefore ==
  /\ decoder = step.pre.decoder
  /\ wasmModule = step.pre.wasmModule
  /\ inputBuffer = step.pre.inputBuffer
  /\ outputBuffer = step.pre.outputBuffer
  /\ live = step.pre.live
  /\ state = step.pre.state

\* The native decode call of step st returned a negative code.
DecodeFailed(st) ==
  /\ st.op = "decode"
  /\ \E i \in Calls(st, "_opus_decode_float") :
       ~st.ncalls[i].threw /\ st.ncalls[i].ret < 0

\* The native decode call of step st returned a count.
DecodeReturned(st) ==
  /\ st.op = "decode"
  /\ \E i \in Calls(st, "_opus_decode_float") :
       ~st.ncalls[i].threw /\ st.ncalls[i].ret >= 0

\* C1: the native decode primitive and the native control primitive are
\* invoked only while the lifecycle state is Ready.
C1_NativeOnlyWhenReady ==
  \A i \in DOMAIN step.ncalls :
    step.ncalls[i].fn \in {"_opus_decode_float", "_opus_decoder_ctl"}
      => step.ncalls[i].st = "Ready"

\* C2: a decode with a non-empty payload handled right after a reset that was
\* handled in Ready makes no native decode call (the reinitialization has not
\* completed), so none with the destroyed handle or the freed regions.
C2_NoDecodeRightAfterReset ==
  (/\ step.op = "decode" /\ NonEmpty(step.data)
   /\ prev.op = "reset" /\ prev.pre.state = "Ready")
    => Calls(step, "_opus_decode_float") = {}

\* C3: when a command is taken up, every earlier command has been handled
\* completely: no initialize() started by an earlier command is pending.
C3_OneCommandAtATime ==
  step.op \in CommandOps
    => \A c \in 1..(Len(cmds) - 1) : ~cmds[c].open

\* C4: in every lifecycle state a decode whose payload is absent or empty
\* makes no native call and posts exactly one message: decoded-audio with
\* 480 samples, all zero, isPacketLoss = true.
C4_EmptyPayloadIsSilence ==
  (step.op = "decode" /\ ~NonEmpty(step.data))
    => /\ step.ncalls = <<>>
       /\ Len(step.emitted) = 1
       /\ step.emitted[1].type = "decoded-audio"
       /\ step.emitted[1].audioData = [len |-> 480, src |-> "zeros"]
       /\ "isPacketLoss" \in step.emitted[1].has
       /\ step.emitted[1].isPacketLoss = TRUE

C4_Witness ==
  /\ step.op = "decode" /\ step.data.present /\ step.data.length = 0
  /\ step.pre.state = "Ready"
  /\ DecodeReturned(prev)

\* C5: a negative code from the native decode primitive in Ready posts
\* decode-error and leaves the handle, both regions and the state as they
\* were; the next packet, when the primitive returns a count for it, is
\* posted as decoded-audio.
C5_DecodeFailureIsContained ==
  /\ (DecodeFailed(step) /\ step.pre.state = "Ready")
       => /\ Types(step.emitted) = <<"decode-error">>
          /\ FieldsAsBefore
          /\ state = "Ready"
  /\ (DecodeFailed(prev) /\ prev.pre.state = "Ready" /\ DecodeReturned(step))
       => /\ Types(step.emitted) = <<"decoded-audio">>
          /\ "isPacketLoss" \notin step.emitted[1].has

C5_Witness ==
  /\ DecodeFailed(prev) /\ prev.pre.state = "Ready"
  /\ DecodeReturned(step)
  /\ step.emitted[1].type = "decoded-audio"

C8_DestroyedIsTerminal ==
  terminal
    => /\ state # "Ready"
       /\ \A i \in DOMAIN step.emitted : step.emitted[i].type # "decoder-ready"
       /\ Calls(step, "_opus_decode_float") = {}
       /\ Calls(step, "_opus_decoder_ctl") = {}

\* C9, the part a finite run decides: a reset that has been handled either
\* has its decoder-ready or decoder-error, or has a reinitialization pending
\* that will post it.
C9_ResetIsAnswered ==
  \A c \in DOMAIN cmds :
    cmds[c].kind = "reset"
      => \/ cmds[c].open
         \/ \E i \in DOMAIN cmds[c].evs :
              cmds[c].evs[i] \in {"decoder-ready", "decoder-error"}

\* C10: at every moment an init command either is pending with no event, or
\* has settled with exactly one event, decoder-ready or decoder-error; and
\* every pending init does settle, whatever is handled meanwhile.
InitAnswered(c) ==
  /\ c \in DOMAIN cmds
  /\ cmds[c].kind = "init"
  /\ ~cmds[c].open
  /\ Len(cmds[c].evs) = 1
  /\ cmds[c].evs[1] \in {"decoder-ready", "decoder-error"}

InitPending(c) ==
  /\ c \in DOMAIN cmds
  /\ cmds[c].kind = "init"
  /\ cmds[c].open
  /\ cmds[c].evs = <<>>

C10_InitAnsweredOnce ==
  /\ [](\A c \in DOMAIN cmds :
          cmds[c].kind = "init" => InitPending(c) \/ InitAnswered(c))
  /\ \A c \in 1..MaxCmds : InitPending(c) ~> InitAnswered(c)

\* An init answered after two other commands were handled while it was
\* suspended.
C10_Witness ==
  /\ InitAnswered(1)
  /\ Len(cmds) = 3
  /\ step.op = "instantiate"
  /\ prev.op \in CommandOps

\* The native creation of step st stored a non-zero error code.
CreateFailed(st) ==
  /\ st.op = "instantiate"
  /\ \E i \in Calls(st, "_opus_decoder_create") : st.ncalls[i].ret # 0

NotInitialized == DecodeError("Decoder not initialized")

\* C11: when native creation reports a non-zero code, decoder-error is
\* posted, that attempt allocates no staging region and the session is not
\* Ready; a decode with a non-empty payload that follows posts the
\* not-initialized decode-error and makes no native decode call.
C11_CreationFailure ==
  /\ CreateFailed(step)
       => /\ Types(step.emitted) = <<"decoder-error">>
          /\ \A i \in Calls(step, "_malloc") :
               step.ncalls[i].inp = Null /\ step.ncalls[i].outp = Null
          /\ inputBuffer = step.pre.inputBuffer
          /\ outputBuffer = step.pre.outputBuffer
          /\ live = step.pre.live
          /\ state # "Ready"
  /\ (CreateFailed(prev) /\ step.op = "decode" /\ NonEmpty(step.data))
       => /\ step.emitted = <<NotInitialized>>
          /\ Calls(step, "_opus_decode_float") = {}

\* The reinitialization of a reset fails, and a decode follows.
C11_Witness ==
  /\ CreateFailed(prev)
  /\ step.op = "decode" /\ NonEmpty(step.data)
  /\ Len(acts) = 2 /\ acts[2].origin = "reset"

\* C12: outside Ready a decode with a non-empty payload posts exactly the
\* not-initialized decode-error and changes nothing, and a configure posts
\* nothing, calls nothing and changes nothing.
C12_NotReadyIsLocalError ==
  /\ (step.op = "decode" /\ NonEmpty(step.data) /\ step.pre.state # "Ready")
       => /\ step.emitted = <<NotInitialized>>
          /\ step.ncalls = <<>>
          /\ FieldsAsBefore
  /\ (step.op = "configure" /\ step.pre.state # "Ready")
       => /\ step.emitted = <<>>
          /\ step.ncalls = <<>>
          /\ FieldsAsBefore

\* C13: a decoded-audio message that is not a packet loss carries
\* samplesDecoded, equal to the length of its audioData and to the count the
\* native decode call of that command returned, and within 0..5760.
C13_SampleCount ==
  \A e \in DOMAIN step.emitted :
    (step.emitted[e].type = "decoded-audio"
       /\ "isPacketLoss" \notin step.emitted[e].has)
      => /\ "samplesDecoded" \in step.emitted[e].has
         /\ step.emitted[e].samplesDecoded = step.emitted[e].audioData.len
         /\ step.emitted[e].samplesDecoded >= 0
         /\ step.emitted[e].samplesDecoded <= 5760
         /\ \E i \in Calls(step, "_opus_decode_float") :
              /\ ~step.ncalls[i].threw
              /\ step.ncalls[i].ret = step.emitted[e].samplesDecoded

\* Two successful decodes in a row, the second filling the output region.
C13_Witness ==
  /\ DecodeReturned(prev) /\ DecodeReturned(step)
  /\ step.emitted[1].type = "decoded-audio"
  /\ step.emitted[1].samplesDecoded = 5760
  /\ prev.emitted[1].samplesDecoded = 960

\* The control call of step st threw.
CtlThrew(st) ==
  /\ st.op = "configure"
  /\ \E i \in Calls(st, "_opus_decoder_ctl") : st.ncalls[i].threw

\* C14: a configure in Ready whose control call throws posts nothing and
\* leaves the handle, the regions and the state as they were; the decode that
\* follows runs against the session as it was before the configure: it calls
\* the native decode with the same handle and regions and posts what that
\* call decides.
C14_ConfigureFailureIsSilent ==
  /\ (CtlThrew(step) /\ step.pre.state = "Ready")
       => /\ step.emitted = <<>>
          /\ FieldsAsBefore
          /\ state = "Ready"
  /\ (CtlThrew(prev) /\ prev.pre.state = "Ready" /\ step.op = "decode")
       => /\ step.pre = prev.pre
          /\ ~NonEmpty(step.data) => step.emitted = <<Silence>>
          /\ NonEmpty(step.data)
               => /\ \E i \in Calls(step, "_opus_decode_float") :
                       /\ step.ncalls[i].dec = prev.pre.decoder
                       /\ step.ncalls[i].inp = prev.pre.inputBuffer
                       /\ step.ncalls[i].outp = prev.pre.outputBuffer
                       /\ step.ncalls[i].live
                  /\ Len(step.emitted) = 1
                  /\ step.emitted[1].type = "decoded-audio" <=> DecodeReturned(step)
                  /\ step.emitted[1].type = "decode-error" <=> ~DecodeReturned(step)

C14_Witness ==
  /\ CtlThrew(prev) /\ prev.pre.state = "Ready"
  /\ DecodeReturned(step)
  /\ step.emitted[1].type = "decoded-audio"

\* C15: a configure in Ready makes exactly one native call when the
\* configuration has gain, the control call with request 4034 on the session's
\* decoder and the integer nearest to gain * 256 (halves rounded up; gain is
\* g512 / 512, so gain * 256 = g512 / 2), and no native call when it has none.
C15_GainControl ==
  (step.op = "configure" /\ step.pre.state = "Ready")
    => IF step.config.hasGain
       THEN /\ Len(step.ncalls) = 1
            /\ step.ncalls[1].fn = "_opus_decoder_ctl"
            /\ step.ncalls[1].req = 4034
            /\ step.ncalls[1].dec = step.pre.decoder
            /\ 2 * step.ncalls[1].n - 1 <= step.config.g512
            /\ step.config.g512 < 2 * step.ncalls[1].n + 1
       ELSE step.ncalls = <<>>

\* A gain of 513/512 is set as 257 after a configure without gain.
C15_Witness ==
  /\ step.op = "configure" /\ step.pre.state = "Ready"
  /\ step.config = [hasGain |-> TRUE, g512 |-> 513]
  /\ step.ncalls[1].n = 257
  /\ prev.op = "configure" /\ ~prev.config.hasGain /\ prev.pre.state = "Ready"

\* C16: the session's inputBuffer and outputBuffer are both non-null exactly
\* when the lifecycle state is Ready.
C16_BuffersIffReady ==
  (inputBuffer # Null /\ outputBuffer # Null) <=> state = "Ready"

HeapCalls == {"_malloc", "_free", "_opus_decoder_create", "_opus_decoder_destroy"}

\* C17: a decode and a configure, successful or not, leave the handle and the
\* two region addresses as they were and neither allocate nor release
\* anything on the native heap.
C17_DecodeConfigureFrame ==
  step.op \in {"decode", "configure"}
    => /\ decoder = step.pre.decoder
       /\ wasmModule = step.pre.wasmModule
       /\ inputBuffer = step.pre.inputBuffer
       /\ outputBuffer = step.pre.outputBuffer
       /\ live = step.pre.live
       /\ \A i \in DOMAIN step.ncalls : step.ncalls[i].fn \notin HeapCalls

\* A failed decode, then a configure that reaches the native control call.
C17_Witness ==
  /\ DecodeFailed(prev) /\ prev.pre.state = "Ready"
  /\ step.op = "configure" /\ Calls(step, "_opus_decoder_ctl") # {}
  /\ live # {}

\* C18: a decode handled in Ready writes at most 4000 bytes into the input
\* region and passes an input length of at most 4000 to the native decode.
C18_InputWithinCapacity ==
  (step.op = "decode" /\ step.pre.state = "Ready")
    => \A i \in Calls(step, "HEAPU8.set") \cup Calls(step, "_opus_decode_float") :
         step.ncalls[i].n <= 4000

\* C19: no decoder is passed to the native destroy twice and no region is
\* freed twice: every release is of something still live.
C19_NoDoubleRelease ==
  \A i \in Calls(step, "_opus_decoder_destroy") \cup Calls(step, "_free") :
    step.ncalls[i].live

\* C20: whatever was created on the native heap and not released is what the
\* session's fields hold, so at most one decoder and one pair of regions live.
C20_LiveIsHeld ==
  /\ live \subseteq {<<"dec", decoder>>, <<"in", inputBuffer>>, <<"out", outputBuffer>>}
  /\ Cardinality({x \in live : x[1] = "dec"}) <= 1
  /\ Cardinality({x \in live : x[1] = "in"}) <= 1
  /\ Cardinality({x \in live : x[1] = "out"}) <= 1

====
